---- MODULE Spec2Model ----
(***************************************************************************)
(* Model of website-audit/scripts/calculate_estimate.py: the Drupal        *)
(* project estimation engine (calculate_estimate) and the report           *)
(* formatter (format_estimation_report), driven as main() drives them.     *)
(*                                                                         *)
(* Python floats are IEEE-754 binary64.  Every hour figure of the engine   *)
(* is therefore modelled as a binary64 value, and +, * and / round to      *)
(* nearest-even on 53 significant bits exactly as the interpreter does.    *)
(* A value x is held as the natural number |x| * 2^60 (a little-endian     *)
(* sequence of 15-bit limbs) together with its sign; in the range the      *)
(* model reaches (0 or 2^-8 <= |x| < 2^30) every binary64 value is such a  *)
(* multiple of 2^-60.                                                      *)
(***************************************************************************)
EXTENDS Integers, Sequences, FiniteSets, TLC

----------------------------------------------------------------------------
(* Natural numbers of arbitrary size: little-endian limbs, no leading zero *)
(* limb, zero is the empty sequence.                                        *)

Limb == 2^15
LimbBits == CHOOSE k \in 1..30 : 2^k = Limb
\* values are scaled by 2^60
ScaleLimbs == 60 \div LimbBits
\* 52 stored bits and the implicit leading one
MantissaBits == 52 + 1

BZero == << >>

RECURSIVE BNorm(_)
BNorm(a) ==
    IF a = << >> THEN << >>
    ELSE IF a[Len(a)] = 0 THEN BNorm(SubSeq(a, 1, Len(a) - 1))
    ELSE a

BLimb(a, i) == IF i <= Len(a) THEN a[i] ELSE 0

BMax(m, n) == IF m >= n THEN m ELSE n

RECURSIVE BAddFrom(_, _, _, _)
BAddFrom(a, b, i, carry) ==
    IF i > BMax(Len(a), Len(b))
    THEN (IF carry = 0 THEN << >> ELSE <<carry>>)
    ELSE LET s == BLimb(a, i) + BLimb(b, i) + carry
         IN  <<s % Limb>> \o BAddFrom(a, b, i + 1, s \div Limb)

BAdd(a, b) == BAddFrom(a, b, 1, 0)

\* a - b for a >= b
RECURSIVE BSubFrom(_, _, _, _)
BSubFrom(a, b, i, borrow) ==
    IF i > Len(a) THEN << >>
    ELSE LET d == a[i] - BLimb(b, i) - borrow
         IN  IF d < 0
             THEN <<d + Limb>> \o BSubFrom(a, b, i + 1, 1)
             ELSE <<d>> \o BSubFrom(a, b, i + 1, 0)

BSub(a, b) == BNorm(BSubFrom(a, b, 1, 0))

\* -1, 0, 1 as a < b, a = b, a > b (both normalised)
RECURSIVE BCmpFrom(_, _, _)
BCmpFrom(a, b, i) ==
    IF i = 0 THEN 0
    ELSE IF a[i] < b[i] THEN -1
    ELSE IF a[i] > b[i] THEN 1
    ELSE BCmpFrom(a, b, i - 1)

BCmp(a, b) ==
    IF Len(a) < Len(b) THEN -1
    ELSE IF Len(a) > Len(b) THEN 1
    ELSE BCmpFrom(a, b, Len(a))

\* a * v for a small v (0 <= v < Limb)
RECURSIVE BMulSmallFrom(_, _, _, _)
BMulSmallFrom(a, v, i, carry) ==
    IF i > Len(a)
    THEN (IF carry = 0 THEN << >> ELSE <<carry>>)
    ELSE LET p == a[i] * v + carry
         IN  <<p % Limb>> \o BMulSmallFrom(a, v, i + 1, p \div Limb)

BMulSmall(a, v) == IF v = 0 THEN << >> ELSE BMulSmallFrom(a, v, 1, 0)

BZeros(k) == [i \in 1..k |-> 0]

\* a * Limb^k
BShiftLimbs(a, k) == IF a = << >> THEN << >> ELSE BZeros(k) \o a

RECURSIVE BMulFrom(_, _, _)
BMulFrom(a, b, j) ==
    IF j > Len(b) THEN << >>
    ELSE BAdd(BShiftLimbs(BMulSmall(a, b[j]), j - 1), BMulFrom(a, b, j + 1))

BMul(a, b) == BMulFrom(a, b, 1)

\* <<quotient, remainder>> of a by a small v (0 < v < Limb)
RECURSIVE BDivSmallFrom(_, _, _, _)
BDivSmallFrom(a, v, i, rem) ==
    IF i = 0 THEN <<<< >>, rem>>
    ELSE LET cur  == rem * Limb + a[i]
             rest == BDivSmallFrom(a, v, i - 1, cur % v)
         IN  <<rest[1] \o <<cur \div v>>, rest[2]>>

BDivSmallNorm(qr) == <<BNorm(qr[1]), qr[2]>>

BDivSmall(a, v) == BDivSmallNorm(BDivSmallFrom(a, v, Len(a), 0))

BFromNat(n) == BNorm(<<n % Limb, (n \div Limb) % Limb, n \div (Limb * Limb)>>)

LimbBitLen(x) == CHOOSE k \in 1..LimbBits : 2^(k - 1) <= x /\ x < 2^k

BBitLen(a) == IF a = << >> THEN 0 ELSE LimbBits * (Len(a) - 1) + LimbBitLen(a[Len(a)])

BIsZeroSeq(s) == \A i \in 1..Len(s) : s[i] = 0

\* the dropped bits (rm below bit r of the limb above the k limbs low) against
\* one half of the last kept place: -1 below, 0 exactly half, 1 above
BDropped(low, rm, k, r) ==
    IF r > 0
    THEN (IF rm > 2^(r - 1) THEN 1
          ELSE IF rm < 2^(r - 1) THEN -1
          ELSE IF BIsZeroSeq(low) THEN 0 ELSE 1)
    ELSE (IF low[k] > Limb \div 2 THEN 1
          ELSE IF low[k] < Limb \div 2 THEN -1
          ELSE IF BIsZeroSeq(SubSeq(low, 1, k - 1)) THEN 0 ELSE 1)

\* ties go to the even neighbour
BRoundUp(q, c) == IF c > 0 \/ (c = 0 /\ q[1] % 2 = 1) THEN BAdd(q, <<1>>) ELSE q

BRoundSplit(low, qr, k, r) ==
    BShiftLimbs(BMulSmall(BRoundUp(qr[1], BDropped(low, qr[2], k, r)), 2^r), k)

BRoundDrop(p, k, r) ==
    BRoundSplit(SubSeq(p, 1, k), BDivSmall(SubSeq(p, k + 1, Len(p)), 2^r), k, r)

BRoundTo(p, len) ==
    IF len <= MantissaBits THEN p
    ELSE BRoundDrop(p, (len - MantissaBits) \div LimbBits, (len - MantissaBits) % LimbBits)

\* round-to-nearest, ties-to-even, on MantissaBits significant bits
BRound(p) == BRoundTo(p, BBitLen(p))

----------------------------------------------------------------------------
(* binary64 values: [neg, mag] with mag = |x| * 2^60                       *)

FZero == [neg |-> FALSE, mag |-> BZero]

FMake(neg, mag) == IF mag = << >> THEN FZero ELSE [neg |-> neg, mag |-> mag]

\* the value p * 2^-120 as a float, p already rounded
FScaled(neg, p) == FMake(neg, SubSeq(p, ScaleLimbs + 1, Len(p)))

FAbsInt(n) == IF n >= 0 THEN n ELSE -n

\* an int as a float (exact)
FInt(n) == FMake(n < 0, BShiftLimbs(BFromNat(FAbsInt(n)), ScaleLimbs))

FAddSigned(x, y, c) ==
    FMake(IF x.neg = y.neg \/ c > 0 THEN x.neg ELSE y.neg,
          BRound(IF x.neg = y.neg THEN BAdd(x.mag, y.mag)
                 ELSE IF c >= 0 THEN BSub(x.mag, y.mag)
                 ELSE BSub(y.mag, x.mag)))

\* x + y
FAdd(x, y) == FAddSigned(x, y, BCmp(x.mag, y.mag))

\* x * y
FMul(x, y) == FScaled(x.neg # y.neg, BRound(BMul(x.mag, y.mag)))

\* the quotient with the remainder as a sticky bit below it
FSticky(qr) == BAdd(BMulSmall(qr[1], 2), IF qr[2] = 0 THEN << >> ELSE <<1>>)

\* n / d for ints n, d with 0 < d < Limb and |n| < Limb (true division)
FDivInt(n, d) ==
    FScaled(n < 0,
            BRound(FSticky(BDivSmall(
                BShiftLimbs(BFromNat(FAbsInt(n) * 2^(LimbBits - 1)), 2 * ScaleLimbs - 1), d))))

\* the float a decimal literal <<n, d>>, written n/d, denotes
FromDecimal(v) == FDivInt(v[1], v[2])

FLess(x, y) ==
    IF x.neg # y.neg THEN x.neg
    ELSE IF x.neg THEN BCmp(x.mag, y.mag) > 0
    ELSE BCmp(x.mag, y.mag) < 0

FLeq(x, y) == x = y \/ FLess(x, y)

FNeg(x) == FMake(~x.neg, x.mag)

FAbs(x) == FMake(FALSE, x.mag)

\* a natural number below 2^30 from its limbs
BToNat(a) == BLimb(a, 1) + Limb * BLimb(a, 2)

FTenthsUp(q, c) == IF c > 0 \/ (c = 0 /\ q % 2 = 1) THEN q + 1 ELSE q

\* p * 2^-60 rounded to a whole number, ties to even
FTenthsRound(p) ==
    FTenthsUp(BToNat(SubSeq(p, ScaleLimbs + 1, Len(p))),
              BDropped([i \in 1..ScaleLimbs |-> BLimb(p, i)], 0, ScaleLimbs, 0))

\* format(x, ".1f") as a number of tenths: x * 10 rounded to the nearest
\* whole number, ties to even
FTenths(x) ==
    (IF x.neg THEN -1 ELSE 1) * FTenthsRound(BMulSmall(x.mag, 10))

----------------------------------------------------------------------------
(* Python values: dicts are functions on their keys, lists are sequences,  *)
(* an insertion-ordered dict whose order matters is a sequence of          *)
(* <<key, value>> pairs, None is a token no document string equals.        *)

None == "<None>"

EmptyDict == [k \in {} |-> 0]

\* d.get(key, default)
Get(d, key, default) == IF key \in DOMAIN d THEN d[key] ELSE default

\* str.lower() on the strings documents carry
lower(s) ==
    CASE s = "Simple"  -> "simple"
      [] s = "Medium"  -> "medium"
      [] s = "MEDIUM"  -> "medium"
      [] s = "Complex" -> "complex"
      [] s = "COMPLEX" -> "complex"
      [] s = "Low"     -> "low"
      [] s = "High"    -> "high"
      [] s = "HIGH"    -> "high"
      [] s = "Legendary" -> "legendary"
      [] OTHER -> s

\* a raised exception, as the value a call yields instead of its return value
Raise(e) == [exc |-> e]

Raised(r) == "exc" \in DOMAIN r

----------------------------------------------------------------------------------------------------------------------------------------
(* The constant tables.  A number of the source is written <<n, d>> for the *)
(* decimal n/d, and becomes a float where the code computes with it.        *)

ESTIMATION_TABLE ==
    [content_type    |-> [simple |-> <<3, 1>>,   medium |-> <<6, 1>>,   complex |-> <<12, 1>>],
     paragraph       |-> [simple |-> <<15, 10>>, medium |-> <<35, 10>>, complex |-> <<6, 1>>],
     taxonomy        |-> [simple |-> <<15, 10>>, medium |-> <<3, 1>>,   complex |-> <<6, 1>>],
     media_type      |-> [simple |-> <<15, 10>>, medium |-> <<3, 1>>,   complex |-> <<35, 10>>],
     view            |-> [simple |-> <<3, 1>>,   medium |-> <<6, 1>>,   complex |-> <<12, 1>>],
     webform         |-> [simple |-> <<3, 1>>,   medium |-> <<6, 1>>,   complex |-> <<12, 1>>],
     block           |-> [simple |-> <<15, 10>>, medium |-> <<3, 1>>,   complex |-> <<6, 1>>],
     custom_module   |-> [simple |-> <<12, 1>>,  medium |-> <<28, 1>>,  complex |-> <<70, 1>>],
     theme_component |-> [simple |-> <<3, 1>>,   medium |-> <<6, 1>>,   complex |-> <<12, 1>>]]

MIGRATION_BASE == 10

MIGRATION_MULTIPLIERS ==
    [simple |-> <<10, 10>>, medium |-> <<20, 10>>, complex |-> <<35, 10>>]

ADDITIONAL_EFFORT == [infrastructure_setup |-> 60, training_handover |-> 30]

BUFFER_PERCENTAGES ==
    [low |-> <<15, 100>>, medium |-> <<20, 100>>, high |-> <<25, 100>>]

\* the keys of the inventory that calculate_base_hours visits, in its order
entity_type_map ==
    << <<"content_types", "content_type">>,
       <<"paragraphs", "paragraph">>,
       <<"taxonomies", "taxonomy">>,
       <<"media_types", "media_type">>,
       <<"views", "view">>,
       <<"webforms", "webform">>,
       <<"blocks", "block">>,
       <<"custom_modules", "custom_module">>,
       <<"theme_components", "theme_component">> >>

----------------------------------------------------------------------------
(* The estimation engine                                                    *)

EntityEstimate(name, type, complexity, hours) ==
    [name |-> name, type |-> type, complexity |-> complexity, hours |-> hours]

\* an unknown tier charged a negative hour
EntityHoursOfNegativeFallback(name, complexity, entity_type) ==
    IF entity_type \notin DOMAIN ESTIMATION_TABLE
    THEN Raise("ValueError")
    ELSE EntityEstimate(name, entity_type, complexity,
             FromDecimal(Get(ESTIMATION_TABLE[entity_type], complexity, <<-1, 1>>)))

\* calculate_entity_hours once complexity.lower() has succeeded
EntityHoursOf(name, complexity, entity_type) ==
    IF entity_type \notin DOMAIN ESTIMATION_TABLE
    THEN Raise("ValueError")
    ELSE EntityEstimate(name, entity_type, complexity,
             FromDecimal(Get(ESTIMATION_TABLE[entity_type], complexity, <<0, 1>>)))

EntityHoursRaw(name, raw, entity_type) ==
    IF raw = None THEN Raise("AttributeError")
    ELSE EntityHoursOf(name, lower(raw), entity_type)

\* the default tier taken to be simple
calculate_entity_hours_default_simple(entity, entity_type) ==
    EntityHoursRaw(Get(entity, "name", "Unknown"),
                   Get(entity, "complexity", "simple"), entity_type)

calculate_entity_hours(entity, entity_type) ==
    EntityHoursRaw(Get(entity, "name", "Unknown"),
                   Get(entity, "complexity", "medium"), entity_type)

BaseHoursAcc(total_hours, breakdown) ==
    [total_hours |-> total_hours, breakdown |-> breakdown]

\* the inner loop of calculate_base_hours over one key's entities, from index i
RECURSIVE BaseHoursEntities(_, _, _, _)
\* the record put at the head of the breakdown instead of its end
BaseHoursPrepend(list, entity_type, i, acc, estimate) ==
    IF Raised(estimate) THEN estimate
    ELSE BaseHoursEntities(list, entity_type, i + 1,
             BaseHoursAcc(FAdd(acc.total_hours, estimate.hours),
                          <<estimate>> \o acc.breakdown))

BaseHoursAppend(list, entity_type, i, acc, estimate) ==
    IF Raised(estimate) THEN estimate
    ELSE BaseHoursEntities(list, entity_type, i + 1,
             BaseHoursAcc(FAdd(acc.total_hours, estimate.hours),
                          Append(acc.breakdown, estimate)))

BaseHoursEntities(list, entity_type, i, acc) ==
    IF i > Len(list) THEN acc
    ELSE BaseHoursAppend(list, entity_type, i, acc,
             calculate_entity_hours(list[i], entity_type))

\* the outer loop of calculate_base_hours over entity_type_map, from index j
RECURSIVE BaseHoursKeys(_, _, _)
BaseHoursNextKey(entities, j, after) ==
    IF Raised(after) THEN after ELSE BaseHoursKeys(entities, j + 1, after)

BaseHoursKey(entities, j, acc, key, entity_type) ==
    IF key \in DOMAIN entities
    THEN BaseHoursNextKey(entities, j, BaseHoursEntities(entities[key], entity_type, 1, acc))
    ELSE BaseHoursKeys(entities, j + 1, acc)

BaseHoursKeys(entities, j, acc) ==
    IF j > Len(entity_type_map) THEN acc
    ELSE BaseHoursKey(entities, j, acc, entity_type_map[j][1], entity_type_map[j][2])

calculate_base_hours(entities) ==
    BaseHoursKeys(entities, 1, BaseHoursAcc(FZero, << >>))

base_setup == 30

\* calculate_migration_hours past its two early returns
MigrationNodeHours(nodes, complexity) ==
    FAdd(FInt(base_setup),
         FMul(FDivInt(nodes, 100),
              FMul(FInt(MIGRATION_BASE),
                   FromDecimal(Get(MIGRATION_MULTIPLIERS, complexity, <<20, 10>>)))))

MigrationHoursRaw(nodes, raw) ==
    IF raw = None THEN Raise("AttributeError")
    ELSE IF nodes = 0 THEN FZero
    ELSE MigrationNodeHours(nodes, lower(raw))

calculate_migration_hours(migration_config) ==
    IF DOMAIN migration_config = {} THEN FZero
    ELSE MigrationHoursRaw(Get(migration_config, "nodes", 0),
                           Get(migration_config, "complexity", "medium"))

MultipliersAcc(total_multiplier_hours, applied) ==
    [total_multiplier_hours |-> total_multiplier_hours, applied |-> applied]

\* the loop of apply_multipliers over the items of the dict, from index i
RECURSIVE ApplyMultipliersFrom(_, _, _, _)
ApplyMultiplier(base_hours, multipliers, i, acc, key, hours) ==
    ApplyMultipliersFrom(base_hours, multipliers, i + 1,
        MultipliersAcc(FAdd(acc.total_multiplier_hours, hours),
                       Append(acc.applied, <<key, hours>>)))

\* each multiplier applied to the base hours plus the multipliers before it
RECURSIVE ApplyMultipliersCompounded(_, _, _, _)
ApplyMultipliersCompounded(base_hours, multipliers, i, acc) ==
    IF i > Len(multipliers) THEN acc
    ELSE ApplyMultipliersCompounded(base_hours, multipliers, i + 1,
             MultipliersAcc(
                 FAdd(acc.total_multiplier_hours,
                      FMul(FAdd(base_hours, acc.total_multiplier_hours),
                           FromDecimal(multipliers[i][2]))),
                 Append(acc.applied,
                        <<multipliers[i][1],
                          FMul(FAdd(base_hours, acc.total_multiplier_hours),
                               FromDecimal(multipliers[i][2]))>>)))

ApplyMultipliersFrom(base_hours, multipliers, i, acc) ==
    IF i > Len(multipliers) THEN acc
    ELSE ApplyMultiplier(base_hours, multipliers, i, acc, multipliers[i][1],
             FMul(base_hours, FromDecimal(multipliers[i][2])))

apply_multipliers(base_hours, multipliers) ==
    ApplyMultipliersFrom(base_hours, multipliers, 1, MultipliersAcc(FZero, << >>))

pm_percentage == <<18, 100>>

calculate_pm_hours(subtotal) == FMul(subtotal, FromDecimal(pm_percentage))

default_assumptions ==
    <<"Requirements are clearly defined",
      "Team has Drupal experience",
      "Standard development practices followed",
      "No major scope changes expected">>

default_risks ==
    <<"Requirements may evolve during development",
      "Migration complexity may be higher than assessed",
      "Third-party integrations may require additional effort">>

EstimationResult(base_hours, multiplier_hours, migration_hours, additional_hours, subtotal, buffer_hours, total_hours, entity_breakdown, multipliers_applied, assumptions, risks) ==
    [base_hours          |-> base_hours,
     multiplier_hours    |-> multiplier_hours,
     migration_hours     |-> migration_hours,
     additional_hours    |-> additional_hours,
     subtotal            |-> subtotal,
     buffer_hours        |-> buffer_hours,
     total_hours         |-> total_hours,
     entity_breakdown    |-> entity_breakdown,
     multipliers_applied |-> multipliers_applied,
     assumptions         |-> assumptions,
     risks               |-> risks]

\* the buffer left out of the total
EstimateTotalWithoutBuffer(entities_data, base, mult, migration_hours, additional_hours, subtotal, buffer_hours) ==
    EstimationResult(base.total_hours, mult.total_multiplier_hours, migration_hours,
                     additional_hours, subtotal, buffer_hours,
                     subtotal,
                     base.breakdown, mult.applied,
                     Get(entities_data, "assumptions", default_assumptions),
                     Get(entities_data, "risks", default_risks))

\* calculate_estimate, lines 214-243: the total, the assumptions and risks
EstimateTotal(entities_data, base, mult, migration_hours, additional_hours, subtotal, buffer_hours) ==
    EstimationResult(base.total_hours, mult.total_multiplier_hours, migration_hours,
                     additional_hours, subtotal, buffer_hours,
                     FAdd(subtotal, buffer_hours),
                     base.breakdown, mult.applied,
                     Get(entities_data, "assumptions", default_assumptions),
                     Get(entities_data, "risks", default_risks))

\* the medium percentage whatever the risk level
BufferHoursAlwaysMedium(subtotal, risk_level) ==
    FMul(subtotal, FromDecimal(BUFFER_PERCENTAGES["medium"]))

\* lines 211-212, once risk_level.lower() has succeeded
BufferHours(subtotal, risk_level) ==
    FMul(subtotal, FromDecimal(Get(BUFFER_PERCENTAGES, risk_level, <<20, 100>>)))

\* lines 209-212: the buffer
EstimateBuffer(entities_data, base, mult, migration_hours, additional_hours, subtotal, raw_risk) ==
    IF raw_risk = None THEN Raise("AttributeError")
    ELSE EstimateTotal(entities_data, base, mult, migration_hours, additional_hours,
                       subtotal, BufferHours(subtotal, lower(raw_risk)))

\* the PM hours left out of the subtotal
EstimateSubtotalWithoutPm(entities_data, base, mult, migration_hours, subtotal_before_pm, pm_hours) ==
    EstimateBuffer(entities_data, base, mult, migration_hours,
                   FAdd(FInt(ADDITIONAL_EFFORT.infrastructure_setup
                             + ADDITIONAL_EFFORT.training_handover), pm_hours),
                   subtotal_before_pm,
                   Get(entities_data, "risk_level", "medium"))

\* lines 204-207: the additional effort and the subtotal
EstimateSubtotal(entities_data, base, mult, migration_hours, subtotal_before_pm, pm_hours) ==
    EstimateBuffer(entities_data, base, mult, migration_hours,
                   FAdd(FInt(ADDITIONAL_EFFORT.infrastructure_setup
                             + ADDITIONAL_EFFORT.training_handover), pm_hours),
                   FAdd(subtotal_before_pm, pm_hours),
                   Get(entities_data, "risk_level", "medium"))

\* PM hours computed on the base hours alone
EstimatePmOnBase(entities_data, base, mult, migration_hours, subtotal_before_pm) ==
    EstimateSubtotal(entities_data, base, mult, migration_hours, subtotal_before_pm,
                     calculate_pm_hours(base.total_hours))

\* lines 200-202: the project management hours
EstimatePm(entities_data, base, mult, migration_hours, subtotal_before_pm) ==
    EstimateSubtotal(entities_data, base, mult, migration_hours, subtotal_before_pm,
                     calculate_pm_hours(subtotal_before_pm))

\* lines 196-201: the fixed effort and the subtotal before PM
EstimateAdditional(entities_data, base, mult, migration_hours) ==
    IF Raised(migration_hours) THEN migration_hours
    ELSE EstimatePm(entities_data, base, mult, migration_hours,
             FAdd(FAdd(FAdd(FAdd(base.total_hours, mult.total_multiplier_hours),
                            migration_hours),
                       FInt(ADDITIONAL_EFFORT.infrastructure_setup)),
                  FInt(ADDITIONAL_EFFORT.training_handover)))

\* lines 188-194: the multipliers and the migration
EstimateFromBase(entities_data, base) ==
    IF Raised(base) THEN base
    ELSE EstimateAdditional(entities_data, base,
             apply_multipliers(base.total_hours, Get(entities_data, "multipliers", << >>)),
             calculate_migration_hours(Get(entities_data, "migration", EmptyDict)))

calculate_estimate(entities_data) ==
    EstimateFromBase(entities_data, calculate_base_hours(entities_data))

----------------
(* The result formatter.  The report is carried as the figures and the     *)
(* sections it prints; the percentage columns are carried only as far as   *)
(* they decide the control flow, which is the division that computes them. *)

RECURSIVE TypesInOrder(_, _, _)
TypesInOrder(breakdown, i, acc) ==
    IF i > Len(breakdown) THEN acc
    ELSE IF \E j \in 1..Len(acc) : acc[j] = breakdown[i].type
         THEN TypesInOrder(breakdown, i + 1, acc)
         ELSE TypesInOrder(breakdown, i + 1, Append(acc, breakdown[i].type))

\* the subtotal taken from the last record alone
SumHoursOfLast(entities, i, acc) ==
    IF entities = << >> THEN acc ELSE FAdd(acc, entities[Len(entities)].hours)

\* sum(e.hours for e in entities): the built-in sum starts from the int 0
RECURSIVE SumHours(_, _, _)
SumHours(entities, i, acc) ==
    IF i > Len(entities) THEN acc
    ELSE SumHours(entities, i + 1, FAdd(acc, entities[i].hours))

format_breakdown_table(breakdown) ==
    LET types == TypesInOrder(breakdown, 1, << >>)
        group(t) == SelectSeq(breakdown, LAMBDA e : e.type = t)
    IN  [g \in 1..Len(types) |->
            [entity_type |-> types[g],
             rows        |-> group(types[g]),
             subtotal    |-> SumHours(group(types[g]), 1, FInt(0))]]

\* a pessimistic figure below the likely one
pessimistic_discount == <<7, 10>>

pessimistic_factor == <<13, 10>>

format_estimation_report(result, entities_data) ==
    LET raw_risk  == Get(entities_data, "risk_level", "medium")
        migration == Get(entities_data, "migration", EmptyDict)
        shown     == DOMAIN migration # {} /\ Get(migration, "nodes", 0) > 0
        infra     == ADDITIONAL_EFFORT.infrastructure_setup
        training  == ADDITIONAL_EFFORT.training_handover
    IN  IF result.total_hours = FZero THEN Raise("ZeroDivisionError")
        ELSE IF raw_risk = None THEN Raise("AttributeError")
        ELSE IF result.multipliers_applied # << >> /\ result.base_hours = FZero
             THEN Raise("ZeroDivisionError")
        ELSE IF shown /\ Get(migration, "complexity", "medium") = None
             THEN Raise("AttributeError")
        ELSE [project_name      |-> Get(entities_data, "project_name", "Website Audit"),
              summary           |-> [base_hours       |-> result.base_hours,
                                     multiplier_hours |-> result.multiplier_hours,
                                     migration_hours  |-> result.migration_hours,
                                     additional_hours |-> result.additional_hours,
                                     subtotal         |-> result.subtotal,
                                     buffer_hours     |-> result.buffer_hours,
                                     total_hours      |-> result.total_hours],
              shown             |-> [base_hours       |-> FTenths(result.base_hours),
                                     multiplier_hours |-> FTenths(result.multiplier_hours),
                                     migration_hours  |-> FTenths(result.migration_hours),
                                     additional_hours |-> FTenths(result.additional_hours),
                                     subtotal         |-> FTenths(result.subtotal),
                                     buffer_hours     |-> FTenths(result.buffer_hours),
                                     total_hours      |-> FTenths(result.total_hours)],
              optimistic        |-> result.base_hours,
              likely            |-> result.total_hours,
              pessimistic       |-> FMul(result.total_hours, FromDecimal(pessimistic_factor)),
              breakdown_table   |-> format_breakdown_table(result.entity_breakdown),
              multiplier_rows   |-> result.multipliers_applied,
              migration_section |-> shown,
              pm_line           |-> FAdd(FAdd(result.additional_hours, FInt(-infra)),
                                         FInt(-training)),
              buffer_percentage |-> FromDecimal(Get(BUFFER_PERCENTAGES, lower(raw_risk), <<20, 100>>)),
              assumptions       |-> [i \in 1..Len(result.assumptions) |->
                                        <<i, result.assumptions[i]>>],
              risks             |-> [i \in 1..Len(result.risks) |-> <<i, result.risks[i]>>],
              generated         |-> Get(entities_data, "audit_date", "2025-11-13")]

\* the machine-readable export main() writes beside the report
json_export(result) ==
    [summary     |-> [total_hours      |-> result.total_hours,
                      base_hours       |-> result.base_hours,
                      multiplier_hours |-> result.multiplier_hours,
                      migration_hours  |-> result.migration_hours,
                      additional_hours |-> result.additional_hours,
                      buffer_hours     |-> result.buffer_hours],
     breakdown   |-> result.entity_breakdown,
     multipliers |-> result.multipliers_applied,
     assumptions |-> result.assumptions,
     risks       |-> result.risks]

----------------------------------------------------------------------------
(* The input documents the model draws from                                 *)

MaxEntities == 2
MaxMultipliers == 2
MaxListLen == 2

\* an optional key of a document: absent, or present with a value
Absent == [has |-> FALSE]
Present(v) == [has |-> TRUE, val |-> v]
Field(key, opt) == IF opt.has THEN key :> opt.val ELSE EmptyDict

SeqsUpTo(S, n) == UNION {[1..k -> S] : k \in 0..n}

\* every value a document can give a complexity or a risk level: a tier name
\* in either case, a name no table has, and null
ComplexityValues == {"simple", "medium", "complex", "Complex", "legendary", None}
RiskValues       == {"low", "medium", "high", "High", "extreme", None}

ComplexityOptions == {Absent} \cup {Present(c) : c \in ComplexityValues}

Entity(nameOpt, complexityOpt) == Field("name", nameOpt) @@ Field("complexity", complexityOpt)

Entities == {Entity(Present("Page"), c) : c \in ComplexityOptions}

Inventory(ct, cm, wg) ==
    Field("content_types", ct) @@ Field("custom_modules", cm) @@ Field("widgets", wg)

ModulePair == <<Entity(Present("Search"), Present("simple")),
                Entity(Absent, Present("complex"))>>

\* inventories rich in content types
Inventories ==
    {Inventory(ct, cm, wg) :
        ct \in {Absent} \cup {Present(l) : l \in SeqsUpTo(Entities, MaxEntities)},
        cm \in {Absent, Present(ModulePair)},
        wg \in {Absent, Present(<<Entity(Present("Clock"), Present("simple"))>>)}}

ContentPair(c1, c2) == <<Entity(Present("Page"), Present(c1)), Entity(Present("Article"), Present(c2))>>

\* a few inventories to go with the other keys: none, an empty one, 24 h, 100 h
FewInventories ==
    {EmptyDict,
     Inventory(Present(<< >>), Absent, Absent),
     Inventory(Present(ContentPair("complex", "complex")), Absent, Absent),
     Inventory(Present(ContentPair("medium", "complex")), Present(ModulePair), Absent)}

MultiplierNames == {"testing", "documentation", "multilingual"}
MultiplierRates == {<<25, 100>>, <<15, 100>>}

Distinct(s) == \A i, j \in 1..Len(s) : i # j => s[i][1] # s[j][1]

MultiplierSets ==
    {m \in SeqsUpTo(MultiplierNames \X MultiplierRates, MaxMultipliers) : Distinct(m)}

MultiplierOptions == {Absent} \cup {Present(m) : m \in MultiplierSets}

NodeCounts == {-1000, -600, -100, 0, 33, 500}

MigrationConfigs ==
    {Field("nodes", n) @@ Field("complexity", c) :
        n \in {Absent} \cup {Present(k) : k \in NodeCounts},
        c \in ComplexityOptions}

MigrationOptions == {Absent} \cup {Present(g) : g \in MigrationConfigs}

RiskOptions == {Absent} \cup {Present(r) : r \in RiskValues}

Texts == {"Content freeze agreed", "Editors available"}

ListOptions == {Absent} \cup {Present(l) : l \in SeqsUpTo(Texts, MaxListLen)}

Document(inv, mult, mig, risk, assumptions, risks) ==
    inv @@ Field("multipliers", mult) @@ Field("migration", mig)
        @@ Field("risk_level", risk) @@ Field("assumptions", assumptions)
        @@ Field("risks", risks)

OneMultiplier == Present(<< <<"testing", <<25, 100>>>> >>)
\* a rate below zero
Discount == Present(<< <<"reuse", <<-200, 100>>>> >>)
SomeMigration == Present("nodes" :> 500 @@ "complexity" :> "medium")

\* one part of the document is varied at a time, the others over a few values
Documents ==
    {Document(inv, mult, Absent, Absent, Absent, Absent) :
        inv \in Inventories, mult \in {Absent, OneMultiplier}}
    \cup
    {Document(inv, mult, Absent, Absent, Absent, Absent) :
        inv \in FewInventories, mult \in MultiplierOptions}
    \cup
    {Document(inv, Absent, mig, risk, Absent, Absent) :
        inv \in FewInventories, mig \in MigrationOptions, risk \in {Absent, Present("high")}}
    \cup
    {Document(inv, mult, mig, risk, Absent, Absent) :
        inv \in FewInventories, mult \in {Absent, OneMultiplier, Discount},
        mig \in {Absent, SomeMigration}, risk \in RiskOptions}
    \cup
    {Document(inv, Absent, Absent, Absent, a, r) :
        inv \in FewInventories, a \in ListOptions, r \in ListOptions}

----------------------------------------------------------------------------
(* main(): load the document, calculate, format and write the report,      *)
(* write the export.  An exception ends the run where it is raised.        *)

VARIABLES entities_data, pc, result, error, report, json_data,
          heap, callers

vars == <<entities_data, pc, result, error, report, json_data, heap, callers>>

Nothing == [nothing |-> TRUE]

Init ==
    /\ entities_data \in Documents
    /\ pc = "loaded"
    /\ result = Nothing
    /\ error = "none"
    /\ report = Nothing
    /\ json_data = Nothing
    /\ heap = << >>
    /\ callers = << >>

Calculate ==
    /\ pc = "loaded"
    /\ LET r == calculate_estimate(entities_data)
       IN  IF Raised(r)
           THEN /\ pc' = "raised"
                /\ error' = r.exc
                /\ result' = result
           ELSE /\ pc' = "calculated"
                /\ result' = r
                /\ error' = error
    /\ UNCHANGED <<entities_data, report, json_data, heap, callers>>

Format ==
    /\ pc = "calculated"
    /\ LET t == format_estimation_report(result, entities_data)
       IN  IF Raised(t)
           THEN /\ pc' = "raised"
                /\ error' = t.exc
                /\ report' = report
           ELSE /\ pc' = "formatted"
                /\ report' = t
                /\ error' = error
    /\ UNCHANGED <<entities_data, result, json_data, heap, callers>>

SaveJson ==
    /\ pc = "formatted"
    /\ pc' = "done"
    /\ json_data' = json_export(result)
    /\ UNCHANGED <<entities_data, result, error, report, heap, callers>>

Next == Calculate \/ Format \/ SaveJson

Spec == Init /\ [][Next]_vars

----------------------------------------------------------------------------
(* Independent callers.  Python passes and returns references: the lists   *)
(* and dictionaries of a document and of a result are objects of one heap,  *)
(* and entities_data.get(key, default) returns the very object the          *)
(* document holds.  Each caller loads its own document, calls               *)
(* calculate_estimate and format_estimation_report, and may afterwards      *)
(* append to a list of the document it passed.                              *)

MaxAmendments == 1

CallerIds == {1, 2}

ListKeys == <<"assumptions", "risks">>

CallerDocuments ==
    {Document(Inventory(Present(ContentPair("medium", "complex")), Absent, Absent),
              mult, Absent, Absent, a, r) :
        mult \in {Absent, OneMultiplier},
        a \in {Absent, Present(<<"Content freeze agreed">>)},
        r \in {Absent, Present(<<"Editors available">>)}}

\* the list objects a document is loaded with, in the order of ListKeys
RECURSIVE ListsOf(_, _)
ListsOf(doc, k) ==
    IF k > Len(ListKeys) THEN << >>
    ELSE (IF ListKeys[k] \in DOMAIN doc THEN <<doc[ListKeys[k]]>> ELSE << >>)
         \o ListsOf(doc, k + 1)

\* the objects that hold the lists of a document loaded at heap offset base
HeldBy(doc, base) ==
    [key \in {ListKeys[k] : k \in 1..Len(ListKeys)} \cap DOMAIN doc |->
        base + Cardinality({k \in 1..Len(ListKeys) :
                               /\ ListKeys[k] \in DOMAIN doc
                               /\ \E m \in k..Len(ListKeys) : ListKeys[m] = key})]

Caller(doc, base) ==
    [pc         |-> "loaded",
     given      |-> doc,
     held       |-> HeldBy(doc, base),
     result     |-> Nothing,
     returned   |-> Nothing,
     report     |-> Nothing,
     error      |-> "none",
     amendments |-> 0]

\* the document of the caller as its objects are now
View(c) ==
    [key \in DOMAIN callers[c].given |->
        IF key \in DOMAIN callers[c].held THEN heap[callers[c].held[key]]
        ELSE callers[c].given[key]]

CallerHasResult(c) == "total_hours" \in DOMAIN callers[c].result

\* the result of the caller as its objects are now
ResultValue(c) ==
    [callers[c].result EXCEPT
        !.multipliers_applied = heap[callers[c].result.multipliers_applied],
        !.assumptions = heap[callers[c].result.assumptions],
        !.risks = heap[callers[c].result.risks]]

InitCallers ==
    /\ entities_data = EmptyDict
    /\ pc = "idle"
    /\ result = Nothing
    /\ error = "none"
    /\ report = Nothing
    /\ json_data = Nothing
    /\ \E d1, d2 \in CallerDocuments :
          /\ heap = ListsOf(d1, 1) \o ListsOf(d2, 1)
          /\ callers = <<Caller(d1, 0), Caller(d2, Len(ListsOf(d1, 1)))>>

\* the object .get(key, default) returns: the one the document holds, or the
\* list the call has just built, at the given new place of the heap
GetObject(c, key, fresh) ==
    IF key \in DOMAIN callers[c].held THEN callers[c].held[key] ELSE fresh

\* the objects calculate_estimate builds, in the order it builds them
BuiltObjects(c, r) ==
    <<r.multipliers_applied>>
    \o (IF "assumptions" \in DOMAIN callers[c].held THEN << >> ELSE <<r.assumptions>>)
    \o (IF "risks" \in DOMAIN callers[c].held THEN << >> ELSE <<r.risks>>)

ReturnResult(c, r) ==
    /\ heap' = heap \o BuiltObjects(c, r)
    /\ callers' = [callers EXCEPT
          ![c].pc = "calculated",
          ![c].returned = r,
          ![c].result =
              [r EXCEPT
                  !.multipliers_applied = Len(heap) + 1,
                  !.assumptions = GetObject(c, "assumptions", Len(heap) + 2),
                  !.risks = GetObject(c, "risks",
                                IF "assumptions" \in DOMAIN callers[c].held
                                THEN Len(heap) + 2 ELSE Len(heap) + 3)]]

CallerRaise(c, r) ==
    /\ heap' = heap
    /\ callers' = [callers EXCEPT ![c].pc = "raised", ![c].error = r.exc]

CallCalculateWith(c, r) ==
    IF Raised(r) THEN CallerRaise(c, r) ELSE ReturnResult(c, r)

CallCalculate(c) ==
    /\ callers[c].pc = "loaded"
    /\ CallCalculateWith(c, calculate_estimate(View(c)))
    /\ UNCHANGED <<entities_data, pc, result, error, report, json_data>>

CallFormatWith(c, t) ==
    IF Raised(t) THEN CallerRaise(c, t)
    ELSE /\ heap' = heap
         /\ callers' = [callers EXCEPT ![c].pc = "formatted", ![c].report = t]

CallFormat(c) ==
    /\ callers[c].pc = "calculated"
    /\ CallFormatWith(c, format_estimation_report(ResultValue(c), View(c)))
    /\ UNCHANGED <<entities_data, pc, result, error, report, json_data>>

\* the caller appends to a list of the document it passed, after the result
\* came back
Amend(c, key) ==
    /\ CallerHasResult(c)
    /\ key \in DOMAIN callers[c].held
    /\ callers[c].amendments < MaxAmendments
    /\ heap' = [heap EXCEPT ![callers[c].held[key]] = Append(@, "Launch date moved")]
    /\ callers' = [callers EXCEPT ![c].amendments = @ + 1]
    /\ UNCHANGED <<entities_data, pc, result, error, report, json_data>>

NextCallers ==
    \E c \in CallerIds :
        \/ CallCalculate(c)
        \/ CallFormat(c)
        \/ \E k \in 1..Len(ListKeys) : Amend(c, ListKeys[k])

SpecCallers == InitCallers /\ [][NextCallers]_vars

----------------------------------------------------------------------------
(* What the properties below speak about                                    *)

HasResult == "total_hours" \in DOMAIN result
HasReport == "summary" \in DOMAIN report

\* calculate_estimate has just returned its result
Returned == pc = "calculated"
\* Calculate has run and raised
CalculateRaised == pc = "raised" /\ ~HasResult
\* Format has run and raised
FormatRaised == pc = "raised" /\ HasResult

CategoryKeys == {entity_type_map[j][1] : j \in 1..Len(entity_type_map)}
ConfigKeys == {"project_name", "audit_date", "risk_level", "multipliers", "migration",
               "assumptions", "risks"}
UnknownKeys(doc) == DOMAIN doc \ (CategoryKeys \cup ConfigKeys)

TierNames == {"simple", "medium", "complex"}

\* the entities of the document with the type of their category, in the order
\* of the categories and, within one, of the input
RECURSIVE InputEntitiesFrom(_, _)
InputEntitiesFrom(doc, j) ==
    IF j > Len(entity_type_map) THEN << >>
    ELSE (IF entity_type_map[j][1] \in DOMAIN doc
          THEN [i \in 1..Len(doc[entity_type_map[j][1]]) |->
                   [entity |-> doc[entity_type_map[j][1]][i], type |-> entity_type_map[j][2]]]
          ELSE << >>)
         \o InputEntitiesFrom(doc, j + 1)

InputEntities(doc) == InputEntitiesFrom(doc, 1)

\* no entity, migration or risk level of the document carries null
EntitiesCarryStrings(doc) ==
    \A i \in 1..Len(InputEntities(doc)) :
        Get(InputEntities(doc)[i].entity, "complexity", "medium") # None
MigrationCarriesStrings(doc) ==
    Get(Get(doc, "migration", EmptyDict), "complexity", "medium") # None
RiskCarriesString(doc) == Get(doc, "risk_level", "medium") # None

\* a sum of floats from 0.0, left to right
RECURSIVE FSumFrom(_, _, _)
FSumFrom(s, i, acc) == IF i > Len(s) THEN acc ELSE FSumFrom(s, i + 1, FAdd(acc, s[i]))
FSum(s) == FSumFrom(s, 1, FZero)

\* 2^-30 hours
Tolerance == [neg |-> FALSE, mag |-> <<0, 0, 1>>]
FNear(x, y) == FLeq(FAbs(FAdd(x, FNeg(y))), Tolerance)

Fixed90 == FInt(ADDITIONAL_EFFORT.infrastructure_setup + ADDITIONAL_EFFORT.training_handover)

\* base_hours + multiplier_hours + migration_hours + 60 + 30 of the result
PrePmSubtotal(r) ==
    FAdd(FAdd(FAdd(FAdd(r.base_hours, r.multiplier_hours), r.migration_hours),
              FInt(60)), FInt(30))

\* base_hours + multiplier_hours + migration_hours + additional_hours
FourPartSum(r) ==
    FAdd(FAdd(FAdd(r.base_hours, r.multiplier_hours), r.migration_hours),
         r.additional_hours)

----------------------------------------------------------------------------
\* C1, as stated: every returned result has total_hours == subtotal +
\* buffer_hours and subtotal == base_hours + multiplier_hours +
\* migration_hours + additional_hours, both as float equalities.
C1_ExactSums ==
    Returned =>
        /\ result.total_hours = FAdd(result.subtotal, result.buffer_hours)
        /\ result.subtotal = FourPartSum(result)

\* C1, amended: total_hours == subtotal + buffer_hours exactly, and subtotal
\* equals base_hours + multiplier_hours + migration_hours + additional_hours
\* up to the rounding of the float additions (within 2^-30 hours): the code
\* adds the PM hours to the running subtotal, not to 60 + 30 first.
C1_SumsUpToRounding ==
    Returned =>
        /\ result.total_hours = FAdd(result.subtotal, result.buffer_hours)
        /\ FNear(result.subtotal, FourPartSum(result))

\* a result whose subtotal is not the float sum of its four parts
C1_Witness == Returned /\ result.subtotal # FourPartSum(result)

\* C3, as stated: pm_hours == 0.18 * (base_hours + multiplier_hours +
\* migration_hours + 60 + 30), additional_hours == 60 + 30 + pm_hours, and
\* base = 100 without multipliers and migration gives pm_hours 34.2 and
\* additional_hours 124.2.
C3_PmExample ==
    Returned =>
        LET pm_hours == FMul(FromDecimal(<<18, 100>>), PrePmSubtotal(result))
        IN  /\ result.additional_hours = FAdd(Fixed90, pm_hours)
            /\ (/\ result.base_hours = FInt(100)
                /\ result.multiplier_hours = FZero
                /\ result.migration_hours = FZero)
               => /\ pm_hours = FromDecimal(<<342, 10>>)
                  /\ result.additional_hours = FromDecimal(<<1242, 10>>)

\* C3, amended: the same two equations; base = 100 without multipliers and
\* migration gives pm_hours 0.18 * 190 and additional_hours 90 + 0.18 * 190 as
\* floats (34.199999999999996 and 124.19999999999999), which are 34.2 and
\* 124.2 at the one decimal the report prints.
C3_PmOnPrePmSubtotal ==
    Returned =>
        LET pm_hours == FMul(FromDecimal(<<18, 100>>), PrePmSubtotal(result))
        IN  /\ result.additional_hours = FAdd(Fixed90, pm_hours)
            /\ (/\ result.base_hours = FInt(100)
                /\ result.multiplier_hours = FZero
                /\ result.migration_hours = FZero)
               => /\ pm_hours = FMul(FromDecimal(<<18, 100>>), FInt(190))
                  /\ FTenths(pm_hours) = 342
                  /\ FTenths(result.additional_hours) = 1242
                  /\ FNear(result.additional_hours, FromDecimal(<<1242, 10>>))

\* a result with base_hours 100, no multipliers and no migration
C3_Witness ==
    /\ Returned
    /\ result.base_hours = FInt(100)
    /\ result.multiplier_hours = FZero
    /\ result.migration_hours = FZero

\* C2: an inventory with a category key the cost model does not define makes
\* calculate_estimate raise the unknown-category error and return no result.
C2_UnknownCategoryRaises ==
    (pc # "loaded" /\ UnknownKeys(entities_data) # {})
        => (CalculateRaised /\ error = "ValueError")

\* the percentage the risk level selects: 15, 20, 25 for low, medium, high in
\* any case; 20 for a missing or any other value
ClaimedBufferPercentage(doc) ==
    IF "risk_level" \notin DOMAIN doc THEN <<20, 100>>
    ELSE IF doc["risk_level"] \in {"low", "Low", "LOW"} THEN <<15, 100>>
    ELSE IF doc["risk_level"] \in {"high", "High", "HIGH"} THEN <<25, 100>>
    ELSE <<20, 100>>

\* C4: buffer_hours == subtotal * the percentage of the risk level (15/20/25,
\* case-insensitive, 20 when missing or unrecognized), the calculation does
\* not raise over the risk level, and subtotal 500 with high gives 125, 625.
C4_BufferByRisk ==
    /\ (pc # "loaded" /\ EntitiesCarryStrings(entities_data)
                      /\ MigrationCarriesStrings(entities_data)) => ~CalculateRaised
    /\ Returned =>
          result.buffer_hours =
              FMul(result.subtotal, FromDecimal(ClaimedBufferPercentage(entities_data)))
    /\ BufferHours(FInt(500), "high") = FInt(125)
    /\ FAdd(FInt(500), BufferHours(FInt(500), "high")) = FInt(625)

\* 1.0, 2.0, 3.5 for simple, medium, complex in any case; 2.0 otherwise
ClaimedMigrationMultiplier(config) ==
    IF "complexity" \notin DOMAIN config THEN <<20, 10>>
    ELSE IF config["complexity"] \in {"simple", "Simple"} THEN <<10, 10>>
    ELSE IF config["complexity"] \in {"complex", "Complex", "COMPLEX"} THEN <<35, 10>>
    ELSE <<20, 10>>

ClaimedMigrationHours(config) ==
    IF DOMAIN config = {} \/ Get(config, "nodes", 0) = 0 THEN FZero
    ELSE FAdd(FInt(30),
              FMul(FDivInt(config["nodes"], 100),
                   FMul(FInt(10), FromDecimal(ClaimedMigrationMultiplier(config)))))

\* C5: calculate_migration_hours returns 0 for an absent or empty
\* configuration and for nodes absent or 0, and otherwise
\* 30 + (nodes / 100) * (10 * m) with m by complexity, 2.0 for an absent or
\* unrecognized one; nodes = 500 with medium gives 130.
C5_MigrationHours ==
    /\ (pc # "loaded" /\ EntitiesCarryStrings(entities_data)
                      /\ RiskCarriesString(entities_data)) => ~CalculateRaised
    /\ Returned =>
          result.migration_hours =
              ClaimedMigrationHours(Get(entities_data, "migration", EmptyDict))
    /\ calculate_migration_hours([nodes |-> 500, complexity |-> "medium"]) = FInt(130)

\* the addends rate * base_hours of the multipliers of the document
MultiplierAddends(doc, base_hours) ==
    [i \in 1..Len(Get(doc, "multipliers", << >>)) |->
        FMul(FromDecimal(doc["multipliers"][i][2]), base_hours)]

\* C6: each multiplier's hours are its rate times base_hours, multiplier_hours
\* is their sum, the breakdown lists the multipliers in input order, and an
\* empty or absent set gives 0 and an empty breakdown.
C6_MultipliersOnBase ==
    Returned =>
        LET m == Get(entities_data, "multipliers", << >>)
            addends == MultiplierAddends(entities_data, result.base_hours)
        IN  /\ result.multipliers_applied = [i \in 1..Len(m) |-> <<m[i][1], addends[i]>>]
            /\ result.multiplier_hours = FSum(addends)
            /\ Len(m) = 0 => /\ result.multiplier_hours = FZero
                             /\ result.multipliers_applied = << >>

\* a result for two or more multipliers on base hours that are not 0
C6_Witness ==
    /\ Returned
    /\ Len(Get(entities_data, "multipliers", << >>)) >= 2
    /\ result.base_hours # FZero

\* the complexity an entity carries names a tier of the cost table
NamesTier(entity) ==
    /\ "complexity" \in DOMAIN entity
    /\ entity["complexity"] # None
    /\ lower(entity["complexity"]) \in TierNames

Unrecognized(entity) == "complexity" \in DOMAIN entity /\ ~NamesTier(entity)

\* C7: an entity of a known category with a complexity the cost table does
\* not have gets 0 hours and adds 0 to base_hours, and the calculation does
\* not raise, whatever the unrecognized value is.
C7_UnknownTierIsZero ==
    /\ (pc # "loaded" /\ MigrationCarriesStrings(entities_data)
                      /\ RiskCarriesString(entities_data)) => ~CalculateRaised
    /\ Returned =>
          LET input == InputEntities(entities_data)
          IN  /\ Len(result.entity_breakdown) = Len(input)
              /\ \A i \in 1..Len(input) :
                    Unrecognized(input[i].entity)
                        => result.entity_breakdown[i].hours = FZero
              /\ result.base_hours =
                    FSum([i \in 1..Len(input) |->
                             IF Unrecognized(input[i].entity) THEN FZero
                             ELSE result.entity_breakdown[i].hours])

MediumHours(type) == FromDecimal(ESTIMATION_TABLE[type]["medium"])

ClaimedList(doc, key, canned) ==
    IF key \in DOMAIN doc /\ doc[key] # << >> THEN doc[key] ELSE canned

\* C9: the assumptions (the risks) of the result are the caller's list when
\* the key is present with a non-empty list, the canned four (three) when the
\* key is absent or its list is empty.
C9_ListsOrCanned ==
    Returned =>
        /\ result.assumptions = ClaimedList(entities_data, "assumptions", default_assumptions)
        /\ result.risks = ClaimedList(entities_data, "risks", default_risks)

\* C10: format_estimation_report returns a report for every result the engine
\* produces, and never fails with a division fault.
C10_NoDivisionFault ==
    /\ ~(FormatRaised /\ error = "ZeroDivisionError")
    /\ (HasResult /\ pc # "calculated") => HasReport

\* the reorderings of a sequence
Orderings(n) == {p \in [1..n -> 1..n] : \A i, j \in 1..n : p[i] = p[j] => i = j}
Reordered(list, p) == [i \in 1..Len(list) |-> list[p[i]]]

\* the reorderings of the entity lists the document has, whatever their length
ReorderingsOf(doc) ==
    UNION {{[doc EXCEPT ![key] = Reordered(doc[key], p)] : p \in Orderings(Len(doc[key]))} :
              key \in CategoryKeys \cap DOMAIN doc}

\* C11: base_hours is the same after any reordering of the entities within the
\* input sequences, and the breakdown lists the entity records in the order
\* the input gave them.
C11_OrderOfEntities ==
    Returned =>
        /\ \A doc \in ReorderingsOf(entities_data) :
              calculate_base_hours(doc).total_hours = result.base_hours
        /\ LET input == InputEntities(entities_data)
           IN  /\ Len(result.entity_breakdown) = Len(input)
               /\ \A i \in 1..Len(input) :
                     /\ result.entity_breakdown[i].name = Get(input[i].entity, "name", "Unknown")
                     /\ result.entity_breakdown[i].type = input[i].type
                     /\ result.entity_breakdown[i].complexity =
                            lower(Get(input[i].entity, "complexity", "medium"))

\* a result for a list of two entities of different hours, so that a
\* reordering changes the order of the addends
C11_Witness ==
    /\ Returned
    /\ "content_types" \in DOMAIN entities_data
    /\ Len(entities_data["content_types"]) >= 2
    /\ result.entity_breakdown[1].hours # result.entity_breakdown[2].hours

\* C12: every entity record in the breakdown of every result has hours >= 0.
C12_HoursNotNegative ==
    Returned =>
        \A i \in 1..Len(result.entity_breakdown) :
            FLeq(FZero, result.entity_breakdown[i].hours)

\* a result whose breakdown has a record of a tier no table has, at 0 hours,
\* and a record of a tier the table has
C12_Witness ==
    /\ Returned
    /\ \E i, j \in 1..Len(result.entity_breakdown) :
          /\ result.entity_breakdown[i].complexity \notin TierNames
          /\ result.entity_breakdown[i].hours = FZero
          /\ FLess(FZero, result.entity_breakdown[j].hours)

\* C13: the report has the migration detail section exactly when the
\* migration_hours of the result are not zero, and the text "No migration
\* required." (the other branch) exactly when they are zero.
C13_MigrationSectionByHours ==
    HasReport => (report.migration_section <=> result.migration_hours # FZero)

\* the document has no entity, no multiplier and no migration
NothingToBuild(doc) ==
    /\ InputEntities(doc) = << >>
    /\ Get(doc, "multipliers", << >>) = << >>
    /\ \/ Get(doc, "migration", EmptyDict) = EmptyDict
       \/ Get(doc["migration"], "nodes", 0) = 0

\* 60 + 30 + 0.18 * (60 + 30)
FixedEffortWithPm ==
    FAdd(FAdd(FInt(60), FInt(30)),
         FMul(FromDecimal(<<18, 100>>), FAdd(FInt(60), FInt(30))))

\* C14: for an input with zero entities, zero multipliers and no migration,
\* at every risk level, base_hours, multiplier_hours and migration_hours are 0,
\* additional_hours == 60 + 30 + 0.18 * (60 + 30), and
\* total_hours == additional_hours + additional_hours * buffer_percentage.
C14_EmptyProject ==
    (Returned /\ NothingToBuild(entities_data)) =>
        /\ result.base_hours = FZero
        /\ result.multiplier_hours = FZero
        /\ result.migration_hours = FZero
        /\ result.additional_hours = FixedEffortWithPm
        /\ result.total_hours =
              FAdd(result.additional_hours,
                   FMul(result.additional_hours,
                        FromDecimal(ClaimedBufferPercentage(entities_data))))

\* a result for an empty project at a risk level that is not the default
C14_Witness ==
    /\ Returned
    /\ NothingToBuild(entities_data)
    /\ Get(entities_data, "risk_level", "medium") = "high"

\* the objects a caller's document holds, and those its result holds
ObjectsOfDocument(c) == {callers[c].held[key] : key \in DOMAIN callers[c].held}
ObjectsOfResult(c) ==
    IF CallerHasResult(c)
    THEN {callers[c].result.multipliers_applied, callers[c].result.assumptions,
          callers[c].result.risks}
    ELSE {}

\* C15: calls of independent callers interleave freely: no call writes its
\* input document, each call's result is the result of the same call run
\* alone, and the result shares no mutable part with the input document or
\* with another call's result, so that a later change to the input does not
\* change a result already returned.
C15_IndependentCalls ==
    \A c \in DOMAIN callers :
        /\ callers[c].amendments = 0 => View(c) = callers[c].given
        /\ CallerHasResult(c) =>
              /\ callers[c].returned = calculate_estimate(callers[c].given)
              /\ ObjectsOfResult(c) \cap ObjectsOfDocument(c) = {}
              /\ \A d \in DOMAIN callers \ {c} :
                    ObjectsOfResult(c) \cap ObjectsOfResult(d) = {}
              /\ ResultValue(c) = callers[c].returned

\* the multiplier rates and the migration nodes of the document are not negative
NonNegativeInputs(doc) ==
    /\ \A i \in 1..Len(Get(doc, "multipliers", << >>)) : doc["multipliers"][i][2][1] >= 0
    /\ Get(Get(doc, "migration", EmptyDict), "nodes", 0) >= 0

\* (60 + 30) * 1.18 * 1.15
LeastTotal ==
    FMul(FMul(FAdd(FInt(60), FInt(30)), FromDecimal(<<118, 100>>)), FromDecimal(<<115, 100>>))

\* C16: for an input whose multiplier rates and migration nodes are not
\* negative, total_hours > 0, at least (60 + 30) * 1.18 * 1.15, so the
\* formatter's divisions by total_hours have a non-zero denominator.
C16_TotalPositive ==
    /\ (Returned /\ NonNegativeInputs(entities_data)) =>
          /\ FLess(FZero, result.total_hours)
          /\ FLeq(LeastTotal, result.total_hours)
    /\ (FormatRaised /\ NonNegativeInputs(entities_data)) => result.total_hours # FZero

\* the least total: a result for nothing to build at low risk
C16_Witness ==
    /\ Returned
    /\ NonNegativeInputs(entities_data)
    /\ NothingToBuild(entities_data)
    /\ Get(entities_data, "risk_level", "medium") = "low"
    /\ FLeq(result.total_hours, FromDecimal(<<12213, 100>>))

\* the hours of the records of a breakdown, and the subtotals of a table
HoursOf(breakdown) == [i \in 1..Len(breakdown) |-> breakdown[i].hours]
SubtotalsOf(table) == [g \in 1..Len(table) |-> table[g].subtotal]

\* C17: base_hours is the sum of the hours of the records of entity_breakdown,
\* and the per-category subtotals format_breakdown_table prints, each entity
\* being in exactly one category group, add up to base_hours.
C17_SubtotalsAddUp ==
    /\ Returned => result.base_hours = FSum(HoursOf(result.entity_breakdown))
    /\ pc = "formatted" =>
          /\ FSum(SubtotalsOf(report.breakdown_table)) = result.base_hours
          /\ FSum([g \in 1..Len(report.breakdown_table) |->
                      FInt(Len(report.breakdown_table[g].rows))])
                = FInt(Len(result.entity_breakdown))
          /\ \A i \in 1..Len(result.entity_breakdown) :
                \E g \in 1..Len(report.breakdown_table) :
                    /\ report.breakdown_table[g].entity_type = result.entity_breakdown[i].type
                    /\ \E k \in 1..Len(report.breakdown_table[g].rows) :
                          report.breakdown_table[g].rows[k] = result.entity_breakdown[i]
                    /\ \A h \in 1..Len(report.breakdown_table) :
                          report.breakdown_table[h].entity_type = result.entity_breakdown[i].type
                              => h = g

\* a report whose table has two category groups, one of them of two entities
C17_Witness ==
    /\ pc = "formatted"
    /\ Len(report.breakdown_table) >= 2
    /\ \E g \in 1..Len(report.breakdown_table) : Len(report.breakdown_table[g].rows) >= 2
    /\ result.base_hours # FZero

\* C18: for an input whose multiplier rates and migration nodes are not
\* negative, the three-point range of the report is ordered:
\* optimistic (base_hours) <= likely (total_hours) <= pessimistic
\* (total_hours * 1.3).
C18_RangeOrdered ==
    (pc = "formatted" /\ NonNegativeInputs(entities_data)) =>
        /\ report.optimistic = result.base_hours
        /\ report.likely = result.total_hours
        /\ report.pessimistic = FMul(result.total_hours, FromDecimal(<<13, 10>>))
        /\ FLeq(report.optimistic, report.likely)
        /\ FLeq(report.likely, report.pessimistic)

\* a report for an inventory with entities, a multiplier and a migration
C18_Witness ==
    /\ pc = "formatted"
    /\ NonNegativeInputs(entities_data)
    /\ FLess(FZero, report.optimistic)
    /\ result.multiplier_hours # FZero
    /\ result.migration_hours # FZero

====
